---- MODULE Spec2Model ----
(***************************************************************************)
(* State-machine model of bob.ip.base:                                     *)
(*   - the Python binding of FaceEyesNorm (face_eyes_norm.cpp), driving     *)
(*     the C++ class bob::ip::base::FaceEyesNorm;                           *)
(*   - the class bob::ip::base::WeightedGaussian (WeightedGaussian.h).      *)
(*                                                                         *)
(* Number representation.  A C double holding a coordinate, a distance or  *)
(* a size is an integer counting HALVES (fixed point, value * 2), so the   *)
(* midpoint of two whole-pixel landmarks is exact.  A distance is kept as  *)
(* [sgn, sq]: the real number sgn * sqrt(sq) (in halves), a scale as      *)
(* [sgn, num, den]: the real number sgn * sqrt(num / den) with num/den in  *)
(* lowest terms, and an angle as the primitive integer vector <<dy, dx>>   *)
(* pointing in its direction (atan2(dy, dx), exact modulo a full turn).    *)
(***************************************************************************)
EXTENDS Integers, Sequences, FiniteSets, TLC

VARIABLES
  fen,      \* fen[i]: the Python object i; its cxx member (Null before __init__)
  built,    \* built[i]: the constructor call that configured object i, if none
            \* of its properties was written since
  call,     \* what the most recent Python-level call did and returned
  nops,     \* number of Python-level calls made so far
  wg,       \* the WeightedGaussian instance
  wgcall,   \* what the most recent WeightedGaussian call did
  attenuation,  \* the weighting policy plugged into WeightedGaussian::filter_
  scratch,  \* the instance's work arrays m_src_extra and m_kernel_weighted
  thr       \* thr[t]: where thread t is in its filter call, its src and dst

vars == <<fen, built, call, nops, wg, wgcall, attenuation, scratch, thr>>

\* ---------------------------------------------------------------- bounds
MaxOps == 3      \* calls per behaviour
MaxCol == 1      \* landmark columns are 0..MaxCol (whole pixels, row 0)
MaxCrop == 2     \* crop-size components offered to the constructors: 0..MaxCrop
MaxRadius == 1   \* kernel radii are 0..MaxRadius
MaxPix == 1      \* pixel values of the images filtered are 0..MaxPix
MaxPlanes == 2   \* a 3D image has 1..MaxPlanes planes

\* ---------------------------------------------------------------- constants
DefaultRadius == 1   \* const size_t radius_y=1, const size_t radius_x=1
DefaultSigma == 2    \* sqrt(2.), held by its square

\* ---------------------------------------------------------------- arithmetic
Abs(x) == IF x < 0 THEN -x ELSE x

Sign(x) == IF x < 0 THEN -1 ELSE IF x = 0 THEN 0 ELSE 1

RECURSIVE Gcd(_, _)
Gcd(a, b) == IF b = 0 THEN a ELSE Gcd(b, a % b)

\* C conversion double -> int: truncation toward zero (d counts halves).
DoubleToInt(d) == IF d >= 0 THEN d \div 2 ELSE -((-d) \div 2)

\* C conversion int -> double.
IntToDouble(n) == 2 * n

\* atan2(dy, dx) as a direction; atan2(0, 0) is 0, the direction of <<0, 1>>.
Atan2(dy, dx) ==
  IF dy = 0 /\ dx = 0 THEN <<0, 1>>
  ELSE LET g == Gcd(Abs(dy), Abs(dx)) IN <<dy \div g, dx \div g>>

\* a - b on angles: the direction of a * conj(b).
AngleSub(a, b) ==
  Atan2(a[1] * b[2] - a[2] * b[1], a[2] * b[2] + a[1] * b[1])

ZeroAngle == <<0, 1>>

\* sqrt(dy^2 + dx^2) as a distance value.
Hypot(dy, dx) == [sgn |-> Sign(dy * dy + dx * dx), sq |-> dy * dy + dx * dx]

\* a double d (in halves) as a distance value.
DistOfDouble(d) == [sgn |-> Sign(d), sq |-> d * d]

\* target / observed for distance values, observed # 0.
DistRatio(t, o) ==
  LET g == Gcd(t.sq, o.sq)
  IN  [sgn |-> t.sgn * o.sgn, num |-> t.sq \div g, den |-> o.sq \div g]

\* ---------------------------------------------------------------- values
Null == [null |-> TRUE]

\* Python values handed to the binding.
PyPair(a, b) == [t |-> "pair", v |-> <<a, b>>]
PyNum(d)     == [t |-> "num", v |-> d]
PyObj(i)     == [t |-> "obj", v |-> i]
PyArray(a)   == [t |-> "array", v |-> a]

NoKwargs == [k \in {} |-> Null]

\* An array argument: element type, number of dimensions, extents of the
\* (last) two dimensions, and the content of its buffer.
Array(type, ndim, shape, data) ==
  [type |-> type, ndim |-> ndim, shape |-> shape, data |-> data]

NoArray == [none |-> TRUE]

\* ------------------------------------------------ bob::ip::base::FaceEyesNorm
\* The C++ class itself is not among the source files; it is modelled from
\* the specification (sections 3, 4.1 and 7).

Positive(size) == size[1] > 0 /\ size[2] > 0

Midpoint(p, q) == <<(p[1] + q[1]) \div 2, (p[2] + q[2]) \div 2>>

\* Angle of the line from the right to the left landmark, relative to the
\* horizontal.
getAngleToHorizontal(right, left) == Atan2(left[1] - right[1], left[2] - right[2])

NewFaceEyesNorm(size, dist, angle, offset) ==
  [cropSize |-> size, eyesDistance |-> dist, eyesAngle |-> angle,
   cropOffset |-> offset,
   lastAngle |-> ZeroAngle, lastScale |-> [sgn |-> 0, num |-> 0, den |-> 1],
   lastOffset |-> <<0, 0>>]

\* FaceEyesNorm(cropSize, eyesDistance, eyesCenter)
FaceEyesNormFromDistance(size, dist, center) ==
  IF ~Positive(size) THEN [res |-> "InvalidConfigurationError", cxx |-> Null]
  ELSE [res |-> "ok",
        cxx |-> NewFaceEyesNorm(size, DistOfDouble(dist), ZeroAngle, center)]

\* FaceEyesNorm(cropSize, rightEye, leftEye)
FaceEyesNormFromEyes(size, right, left) ==
  IF ~Positive(size) THEN [res |-> "InvalidConfigurationError", cxx |-> Null]
  ELSE [res |-> "ok",
        cxx |-> NewFaceEyesNorm(size,
                                Hypot(left[1] - right[1], left[2] - right[2]),
                                getAngleToHorizontal(right, left),
                                Midpoint(right, left))]

\* FaceEyesNorm(const FaceEyesNorm& other): full state, last-applied included.
FaceEyesNormCopy(other) == [res |-> "ok", cxx |-> other]

\* bool operator==(const FaceEyesNorm& other) const
FaceEyesNormEq(a, b) ==
  /\ a.cropSize = b.cropSize
  /\ a.eyesDistance = b.eyesDistance
  /\ a.eyesAngle = b.eyesAngle
  /\ a.cropOffset = b.cropOffset

\* void setCropSize(const blitz::TinyVector<double,2>&): stored as integers.
FaceEyesNormSetCropSize(cxx, r) ==
  LET size == <<DoubleToInt(r[1]), DoubleToInt(r[2])>>
  IN  IF ~Positive(size) THEN [res |-> "InvalidConfigurationError", cxx |-> cxx]
      ELSE [res |-> "ok", cxx |-> [cxx EXCEPT !.cropSize = size]]

FaceEyesNormSetEyesDistance(cxx, d) ==
  [res |-> "ok", cxx |-> [cxx EXCEPT !.eyesDistance = DistOfDouble(d)]]

FaceEyesNormSetEyesAngle(cxx, a) ==
  [res |-> "ok", cxx |-> [cxx EXCEPT !.eyesAngle = a]]

FaceEyesNormSetCropOffset(cxx, r) ==
  [res |-> "ok", cxx |-> [cxx EXCEPT !.cropOffset = r]]

\* What the GeomNorm collaborator leaves in an output buffer.
Resampled == "resampled"

\* extract(input, [input_mask,] output, [output_mask,] right, left):
\* all shape preconditions, then the landmark distance, then the transform.
FaceEyesNormExtract(cxx, input, input_mask, output, output_mask, right, left) ==
  LET masks    == input_mask # NoArray /\ output_mask # NoArray
      observed == Hypot(left[1] - right[1], left[2] - right[2])
      fail(e)  == [res |-> e, cxx |-> cxx, output |-> output,
                   output_mask |-> output_mask]
  IN  IF output.shape # cxx.cropSize THEN fail("ShapeMismatchError")
      ELSE IF masks /\ input_mask.shape # input.shape
        THEN fail("ShapeMismatchError")
      ELSE IF masks /\ output_mask.shape # output.shape
        THEN fail("ShapeMismatchError")
      ELSE IF observed.sq = 0 THEN fail("DegenerateLandmarksError")
      ELSE [res |-> "ok",
            cxx |-> [cxx EXCEPT
                       !.lastAngle = AngleSub(cxx.eyesAngle,
                                              getAngleToHorizontal(right, left)),
                       !.lastScale = DistRatio(cxx.eyesDistance, observed),
                       !.lastOffset = Midpoint(right, left)],
            output |-> [output EXCEPT !.data = Resampled],
            output_mask |-> IF masks
                              THEN [output_mask EXCEPT !.data = Resampled]
                              ELSE output_mask]

\* ------------------------------------------------------- the Python binding
\* PyArg_ParseTupleAndKeywords with a format of required items only: item i
\* is taken from the positional arguments, then from the keywords.
PyArg_ParseTupleAndKeywords(args, kwargs, fmt, kwlist) ==
  LET n      == Len(kwlist)
      val(i) == IF i <= Len(args) THEN args[i] ELSE kwargs[kwlist[i]]
      ok     == /\ Len(args) + Cardinality(DOMAIN kwargs) <= n
                /\ \A k \in DOMAIN kwargs :
                     \E i \in (Len(args) + 1)..n : kwlist[i] = k
                /\ \A i \in 1..n :
                     /\ i <= Len(args) \/ kwlist[i] \in DOMAIN kwargs
                     /\ val(i).t = fmt[i]
  IN  [ok |-> ok, v |-> IF ok THEN [i \in 1..n |-> val(i).v] ELSE <<>>]

\* The number of command line arguments.
NArgs(args, kwargs) == Len(args) + Cardinality(DOMAIN kwargs)

\* tp_init, case 1: the copy constructor.
InitCopy(objs, self, args, kwargs) ==
  LET p == PyArg_ParseTupleAndKeywords(args, kwargs, <<"obj">>, <<"other">>)
  IN  IF ~p.ok
        THEN [res |-> "ParseError", cxx |-> objs[self].cxx, form |-> "none"]
        ELSE [res |-> "ok", cxx |-> FaceEyesNormCopy(objs[p.v[1]].cxx).cxx,
              form |-> "copy"]

\* The two-eyes case with the landmarks handed to the class in the order
\* (left, right).
InitTwoEyes_Swapped(objs, self, args, kwargs) ==
  LET p == PyArg_ParseTupleAndKeywords(args, kwargs,
             <<"pair", "pair", "pair">>,
             <<"crop_size", "right_eye", "left_eye">>)
  IN  IF ~p.ok
        THEN [res |-> "ParseError", cxx |-> objs[self].cxx, form |-> "none"]
        ELSE LET made == FaceEyesNormFromEyes(p.v[1], p.v[3], p.v[2])
             IN  IF made.res = "ok"
                   THEN [res |-> "ok", cxx |-> made.cxx, form |-> "eyes"]
                   ELSE [res |-> made.res, cxx |-> objs[self].cxx,
                         form |-> "none"]

\* tp_init, case 3, "with two eyes".
InitTwoEyes(objs, self, args, kwargs) ==
  LET p == PyArg_ParseTupleAndKeywords(args, kwargs,
             <<"pair", "pair", "pair">>,
             <<"crop_size", "right_eye", "left_eye">>)
  IN  IF ~p.ok
        THEN [res |-> "ParseError", cxx |-> objs[self].cxx, form |-> "none"]
        ELSE LET made == FaceEyesNormFromEyes(p.v[1], p.v[2], p.v[3])
             IN  IF made.res = "ok"
                   THEN [res |-> "ok", cxx |-> made.cxx, form |-> "eyes"]
                   ELSE [res |-> made.res, cxx |-> objs[self].cxx,
                         form |-> "none"]

\* tp_init, case 3, "with eye distance".
InitEyeDistance(objs, self, args, kwargs) ==
  LET p == PyArg_ParseTupleAndKeywords(args, kwargs,
             <<"pair", "num", "pair">>,
             <<"crop_size", "eyes_distance", "eyes_center">>)
  IN  IF ~p.ok
        THEN [res |-> "ParseError", cxx |-> objs[self].cxx, form |-> "none"]
        ELSE LET made == FaceEyesNormFromDistance(p.v[1], p.v[2], p.v[3])
             IN  IF made.res = "ok"
                   THEN [res |-> "ok", cxx |-> made.cxx, form |-> "distance"]
                   ELSE [res |-> made.res, cxx |-> objs[self].cxx,
                         form |-> "none"]

\* tp_init.  seq is what PySequence_Check(PyList_GET_ITEM(args,1)) yields:
\* args is a tuple, so the list macro reads memory that is no list item.
PyBobIpBaseFaceEyesNorm_init(objs, self, args, kwargs, seq) ==
  CASE NArgs(args, kwargs) = 1 -> InitCopy(objs, self, args, kwargs)
    [] NArgs(args, kwargs) = 3 ->
         IF (Len(args) > 1 /\ seq) \/ "right_eye" \in DOMAIN kwargs
           THEN InitTwoEyes(objs, self, args, kwargs)
           ELSE InitEyeDistance(objs, self, args, kwargs)
    [] OTHER -> [res |-> "WrongNumberOfParameters", cxx |-> objs[self].cxx,
                 form |-> "none"]

\* A tp_richcompare whose Py_NE branch returns what its Py_EQ branch returns.
RichCompare_NeLikeEq(self, other, op) ==
  CASE op = "Py_EQ" -> FaceEyesNormEq(self.cxx, other.cxx)
    [] op = "Py_NE" -> FaceEyesNormEq(self.cxx, other.cxx)
    [] OTHER -> "NotImplemented"

\* tp_richcompare
PyBobIpBaseFaceEyesNorm_RichCompare(self, other, op) ==
  CASE op = "Py_EQ" -> FaceEyesNormEq(self.cxx, other.cxx)
    [] op = "Py_NE" -> ~FaceEyesNormEq(self.cxx, other.cxx)
    [] OTHER -> "NotImplemented"

\* The property setters: each converts the Python value and calls the class.
PyBobIpBaseFaceEyesNorm_setEyesDistance(cxx, value) ==
  IF value.t # "num" THEN [res |-> "ConversionError", cxx |-> cxx]
  ELSE FaceEyesNormSetEyesDistance(cxx, value.v)

PyBobIpBaseFaceEyesNorm_setEyesAngle(cxx, value) ==
  IF value.t # "angle" THEN [res |-> "ConversionError", cxx |-> cxx]
  ELSE FaceEyesNormSetEyesAngle(cxx, value.v)

PyBobIpBaseFaceEyesNorm_setCropSize(cxx, value) ==
  IF value.t # "pair" THEN [res |-> "ConversionError", cxx |-> cxx]
  ELSE FaceEyesNormSetCropSize(cxx, value.v)

PyBobIpBaseFaceEyesNorm_setCropOffset(cxx, value) ==
  IF value.t # "pair" THEN [res |-> "ConversionError", cxx |-> cxx]
  ELSE FaceEyesNormSetCropOffset(cxx, value.v)

\* A tp_getset table in which last_scale has a setter too.
Getseters_LastScaleWritable ==
  [eyes_distance |-> TRUE, eyes_angle |-> TRUE, crop_size |-> TRUE,
   crop_offset |-> TRUE, last_angle |-> FALSE, last_scale |-> TRUE,
   last_offset |-> FALSE, geom_norm |-> FALSE]

\* The tp_getset table: which attributes have a setter.
PyBobIpBaseFaceEyesNorm_getseters ==
  [eyes_distance |-> TRUE, eyes_angle |-> TRUE, crop_size |-> TRUE,
   crop_offset |-> TRUE, last_angle |-> FALSE, last_scale |-> FALSE,
   last_offset |-> FALSE, geom_norm |-> FALSE]

\* The member of the class behind each attribute.
Member ==
  [eyes_distance |-> "eyesDistance", eyes_angle |-> "eyesAngle",
   crop_size |-> "cropSize", crop_offset |-> "cropOffset",
   last_angle |-> "lastAngle", last_scale |-> "lastScale",
   last_offset |-> "lastOffset", geom_norm |-> "geomNorm"]

\* obj.name = value through the tp_getset table.
SetAttribute(cxx, name, value) ==
  IF ~PyBobIpBaseFaceEyesNorm_getseters[name]
    THEN [res |-> "AttributeError", cxx |-> cxx]
  ELSE CASE name = "eyes_distance" ->
              PyBobIpBaseFaceEyesNorm_setEyesDistance(cxx, value)
         [] name = "eyes_angle" ->
              PyBobIpBaseFaceEyesNorm_setEyesAngle(cxx, value)
         [] name = "crop_size" ->
              PyBobIpBaseFaceEyesNorm_setCropSize(cxx, value)
         [] name = "crop_offset" ->
              PyBobIpBaseFaceEyesNorm_setCropOffset(cxx, value)
         [] OTHER ->
              [res |-> "ok", cxx |-> [cxx EXCEPT ![Member[name]] = value.v]]

\* The switch on nargs of extract: which prototype the arguments are parsed
\* against.  Case 3 has no break, so control runs on into case 4.
ExtractArguments(args, kwargs) ==
  LET nargs == NArgs(args, kwargs)
      p3 == PyArg_ParseTupleAndKeywords(args, kwargs,
              <<"array", "pair", "pair">>,
              <<"input", "right_eye", "left_eye">>)
      p4 == PyArg_ParseTupleAndKeywords(args, kwargs,
              <<"array", "array", "pair", "pair">>,
              <<"input", "output", "right_eye", "left_eye">>)
      p6 == PyArg_ParseTupleAndKeywords(args, kwargs,
              <<"array", "array", "array", "array", "pair", "pair">>,
              <<"input", "input_mask", "output", "output_mask",
                "right_eye", "left_eye">>)
      bad(e) == [res |-> e, input |-> NoArray, input_mask |-> NoArray,
                 output |-> NoArray, output_mask |-> NoArray,
                 right |-> <<0, 0>>, left |-> <<0, 0>>]
      from4  == [res |-> "ok", input |-> p4.v[1], input_mask |-> NoArray,
                 output |-> p4.v[2], output_mask |-> NoArray,
                 right |-> p4.v[3], left |-> p4.v[4]]
  IN  CASE nargs = 3 ->
             IF ~p3.ok THEN bad("ParseError")
             ELSE IF ~p4.ok THEN bad("ParseError")
             ELSE from4
        [] nargs = 4 ->
             IF ~p4.ok THEN bad("ParseError") ELSE from4
        [] nargs = 6 ->
             IF ~p6.ok THEN bad("ParseError")
             ELSE [res |-> "ok", input |-> p6.v[1], input_mask |-> p6.v[2],
                   output |-> p6.v[3], output_mask |-> p6.v[4],
                   right |-> p6.v[5], left |-> p6.v[6]]
        [] OTHER -> bad("WrongNumberOfParameters")

\* PyBlitzArray_SimpleNew(NPY_FLOAT64, 2, crop size): not yet written.
NewOutput(cxx) == Array("float64", 2, cxx.cropSize, "uninitialized")

\* An extract_inner that clears the output buffer before it calls the class.
extract_inner_ClearsOutput(cxx, input, input_mask, output, output_mask, right, left) ==
  IF input_mask # NoArray /\ output_mask # NoArray
    THEN FaceEyesNormExtract(cxx, input, input_mask,
                             [output EXCEPT !.data = "cleared"], output_mask,
                             right, left)
    ELSE FaceEyesNormExtract(cxx, input, NoArray,
                             [output EXCEPT !.data = "cleared"], NoArray,
                             right, left)

\* extract_inner<T>
extract_inner(cxx, input, input_mask, output, output_mask, right, left) ==
  IF input_mask # NoArray /\ output_mask # NoArray
    THEN FaceEyesNormExtract(cxx, input, input_mask, output, output_mask,
                             right, left)
    ELSE FaceEyesNormExtract(cxx, input, NoArray, output, NoArray, right, left)

\* extract (also tp_call).  ret is what Python gets back: "NULL" with an
\* error set, "None", or "array" (then output is the array returned).
PyBobIpBaseFaceEyesNorm_extract(cxx, args, kwargs) ==
  LET a       == ExtractArguments(args, kwargs)
      nargs   == NArgs(args, kwargs)
      fail(e) == [res |-> e, ret |-> "NULL", cxx |-> cxx,
                  output |-> a.output, output_mask |-> a.output_mask]
      output  == IF a.output # NoArray THEN a.output ELSE NewOutput(cxx)
      masks   == a.input_mask # NoArray /\ a.output_mask # NoArray
  IN  IF a.res # "ok" THEN fail(a.res)
      ELSE IF a.input.ndim # 2 THEN fail("InputNotTwoD")
      ELSE IF a.output # NoArray /\ a.output.ndim # 2
        THEN fail("OutputNotTwoD")
      ELSE IF a.output # NoArray /\ a.output.type # "float64"
        THEN fail("OutputNotFloat64")
      ELSE IF masks /\ (a.input_mask.ndim # 2 \/ a.output_mask.ndim # 2)
        THEN fail("MaskNotTwoD")
      ELSE IF masks /\ (a.input_mask.type # "bool"
                        \/ a.output_mask.type # "bool")
        THEN fail("MaskNotBool")
      ELSE IF a.input.type \notin {"uint8", "uint16", "float64"}
        THEN fail("UnsupportedElementTypeError")
      ELSE LET r == extract_inner(cxx, a.input, a.input_mask, output,
                                  a.output_mask, a.right, a.left)
           IN  IF r.res # "ok"
                 THEN [res |-> r.res, ret |-> "NULL", cxx |-> r.cxx,
                       output |-> IF a.output # NoArray THEN r.output
                                  ELSE NoArray,
                       output_mask |-> r.output_mask]
               ELSE [res |-> "ok",
                     ret |-> IF nargs = 3 THEN "array" ELSE "None",
                     cxx |-> r.cxx, output |-> r.output,
                     output_mask |-> r.output_mask]

\* ---------------------------------------------------------------- callers
Objs == {1, 2}

\* Whole-pixel landmark positions <<row, column>>.
Points == {<<0, IntToDouble(x)>> : x \in 0..MaxCol}

\* Positions on the half-pixel grid (centres, offsets).
Centers == {<<0, x>> : x \in 0..(2 * MaxCol)}

DistVals == {IntToDouble(d) : d \in 0..MaxCol}

AngleVals == {ZeroAngle, <<1, 0>>}

CropInts == {<<h, MaxCrop>> : h \in 0..MaxCrop}

CropDoubles == {<<IntToDouble(c[1]) + f, IntToDouble(c[2])>> :
                  c \in CropInts, f \in {0, 1}}

ElemTypes == {"uint8", "uint16", "float64", "int32"}

InputShape == <<2, 2>>

Kw2(n1, v1, n2, v2) == [k \in {n1, n2} |-> IF k = n1 THEN v1 ELSE v2]

\* The constructor calls offered to object construction.
InitCalls(objs) ==
  {[args |-> <<PyObj(j)>>, kwargs |-> NoKwargs] :
      j \in {k \in Objs : objs[k].cxx # Null}}
  \cup {[args |-> <<PyPair(c[1], c[2]), PyPair(r[1], r[2]), PyPair(l[1], l[2])>>,
         kwargs |-> NoKwargs] : c \in CropInts, r \in Points, l \in Points}
  \cup {[args |-> <<PyPair(c[1], c[2])>>,
         kwargs |-> Kw2("right_eye", PyPair(r[1], r[2]),
                        "left_eye", PyPair(l[1], l[2]))] :
          c \in CropInts, r \in Points, l \in Points}
  \cup {[args |-> <<PyPair(c[1], c[2]), PyNum(d), PyPair(m[1], m[2])>>,
         kwargs |-> NoKwargs] : c \in CropInts, d \in DistVals, m \in Centers}
  \cup {[args |-> <<PyPair(c[1], c[2]), PyNum(d)>>, kwargs |-> NoKwargs] :
          c \in CropInts, d \in DistVals}

\* The constructor calls of InitCalls and, beside them, calls with no
\* argument, with four arguments, with the distance form's keywords and
\* with a number in second position next to the keyword right_eye.
AnyInitCalls(objs) ==
  InitCalls(objs)
  \cup {[args |-> <<>>, kwargs |-> NoKwargs]}
  \cup {[args |-> <<PyPair(c[1], c[2]), PyPair(r[1], r[2]), PyPair(l[1], l[2]),
                    PyPair(l[1], l[2])>>,
         kwargs |-> NoKwargs] : c \in CropInts, r \in Points, l \in Points}
  \cup {[args |-> <<PyPair(c[1], c[2])>>,
         kwargs |-> Kw2("eyes_distance", PyNum(d),
                        "eyes_center", PyPair(m[1], m[2]))] :
          c \in CropInts, d \in DistVals, m \in Centers}
  \cup {[args |-> <<PyPair(c[1], c[2]), PyNum(d)>>,
         kwargs |-> [k \in {"right_eye"} |-> PyPair(r[1], r[2])]] :
          c \in CropInts, d \in DistVals, r \in Points}

\* The values offered to each attribute.
AttrValues(name) ==
  CASE name = "eyes_distance" -> {PyNum(d) : d \in DistVals} \cup {PyPair(0, 0)}
                              \cup {PyNum(-2)}
    [] name = "eyes_angle" -> {[t |-> "angle", v |-> a] : a \in AngleVals}
    [] name = "crop_size" -> {PyPair(c[1], c[2]) : c \in CropDoubles}
                             \cup {PyNum(2)}
    [] name = "crop_offset" -> {PyPair(m[1], m[2]) : m \in Centers}
    [] name = "last_angle" -> {[t |-> "angle", v |-> <<1, 0>>]}
    [] name = "last_scale" ->
         {[t |-> "num", v |-> [sgn |-> 1, num |-> 4, den |-> 1]]}
    [] name = "last_offset" -> {PyPair(2, 2)}
    [] OTHER -> {PyNum(2)}

InputArrays ==
  {Array(t, 2, InputShape, "image") : t \in ElemTypes}
  \cup {Array("float64", 3, InputShape, "image")}

\* The crop sizes an object can be configured with.
CropShapes == {c \in CropInts : Positive(c)}

FullShape == <<MaxCrop, MaxCrop>>

Image == Array("float64", 2, InputShape, "image")

\* Caller-owned output buffers: float64 of every crop size, and one of the
\* wrong element type and one of the wrong dimensionality.
OutBuffers ==
  {Array("float64", 2, c, "caller") : c \in CropShapes}
  \cup {Array("uint8", 2, FullShape, "caller"),
        Array("float64", 3, FullShape, "caller")}

\* Caller-owned masks for an array of the given shape: a fitting one and one
\* with each single defect.
Masks(shape) ==
  {Array("bool", 2, shape, "caller"), Array("uint8", 2, shape, "caller"),
   Array("bool", 3, shape, "caller"),
   Array("bool", 2, <<shape[1] + 1, shape[2]>>, "caller")}

MaskFor(arr) == Array("bool", 2, arr.shape, "caller")

FullOutput == Array("float64", 2, FullShape, "caller")

LandmarkArgs == {<<PyPair(r[1], r[2]), PyPair(l[1], l[2])>> : r \in Points, l \in Points}

Calls3 ==
  {[args |-> <<PyArray(i)>> \o lm, kwargs |-> NoKwargs] :
      i \in InputArrays, lm \in LandmarkArgs}

\* With an output buffer: every input with the full-size buffer, the
\* float64 image with every buffer.
Calls4 ==
  LET duos == {<<i, FullOutput>> : i \in InputArrays}
              \cup {<<Image, b>> : b \in OutBuffers}
  IN  {[args |-> <<PyArray(q[1]), PyArray(q[2])>> \o lm, kwargs |-> NoKwargs] :
          q \in duos, lm \in LandmarkArgs}

\* With masks: one of the four arrays varies at a time.
Calls6 ==
  LET quads == {<<i, MaskFor(i), FullOutput, MaskFor(FullOutput)>> :
                  i \in InputArrays}
               \cup {<<Image, m, FullOutput, MaskFor(FullOutput)>> :
                       m \in Masks(InputShape)}
               \cup {<<Image, MaskFor(Image), b, MaskFor(b)>> : b \in OutBuffers}
               \cup {<<Image, MaskFor(Image), FullOutput, m>> :
                       m \in Masks(FullShape)}
  IN  {[args |-> <<PyArray(q[1]), PyArray(q[2]), PyArray(q[3]), PyArray(q[4])>>
                 \o lm, kwargs |-> NoKwargs] : q \in quads, lm \in LandmarkArgs}

\* Neither 3, 4 nor 6 arguments.
CallsOther ==
  {[args |-> <<PyArray(Image), lm[1]>>, kwargs |-> NoKwargs] :
      lm \in LandmarkArgs}

ExtractCalls == Calls3 \cup Calls4 \cup Calls6 \cup CallsOther

\* Only the plain form: the float64 image and a float64 output buffer.
PlainCalls ==
  {[args |-> <<PyArray(Image), PyArray(b)>> \o lm, kwargs |-> NoKwargs] :
      b \in {Array("float64", 2, c, "caller") : c \in CropShapes},
      lm \in LandmarkArgs}

\* The arguments of an extract call as its documented prototypes name them
\* ("input, right_eye, left_eye", "input, output, right_eye, left_eye",
\* "input, input_mask, output, output_mask, right_eye, left_eye").
Documented(c) ==
  LET n == NArgs(c.args, c.kwargs)
      a == c.args
  IN  CASE n = 3 -> [input |-> a[1].v, input_mask |-> NoArray,
                     output |-> NoArray, output_mask |-> NoArray,
                     right |-> a[2].v, left |-> a[3].v]
        [] n = 4 -> [input |-> a[1].v, input_mask |-> NoArray,
                     output |-> a[2].v, output_mask |-> NoArray,
                     right |-> a[3].v, left |-> a[4].v]
        [] n = 6 -> [input |-> a[1].v, input_mask |-> a[2].v,
                     output |-> a[3].v, output_mask |-> a[4].v,
                     right |-> a[5].v, left |-> a[6].v]
        [] OTHER -> [input |-> a[1].v, input_mask |-> NoArray,
                     output |-> NoArray, output_mask |-> NoArray,
                     right |-> <<0, 0>>, left |-> <<0, 0>>]

SupportedTypes == {"uint8", "uint16", "float64"}

\* Every documented precondition on the arrays of the call holds, the
\* element type of the input apart.
WellFormed(cxx, d) ==
  /\ d.input.ndim = 2
  /\ d.output # NoArray =>
       /\ d.output.ndim = 2
       /\ d.output.type = "float64"
       /\ d.output.shape = cxx.cropSize
  /\ d.input_mask # NoArray =>
       /\ d.input_mask.ndim = 2
       /\ d.input_mask.type = "bool"
       /\ d.input_mask.shape = d.input.shape
  /\ d.output_mask # NoArray =>
       /\ d.output_mask.ndim = 2
       /\ d.output_mask.type = "bool"
       /\ d.output_mask.shape = d.output.shape

DataOf(arr) == IF arr = NoArray THEN "none" ELSE arr.data

TypeOf(arr) == IF arr = NoArray THEN "none" ELSE arr.type

\* The constructor arguments behind a successful construction.
BuiltOf(c, form) ==
  CASE form = "eyes" ->
         LET p == PyArg_ParseTupleAndKeywords(c.args, c.kwargs,
                    <<"pair", "pair", "pair">>,
                    <<"crop_size", "right_eye", "left_eye">>)
         IN  [form |-> form, size |-> p.v[1], a |-> p.v[2], b |-> p.v[3]]
    [] form = "distance" ->
         LET p == PyArg_ParseTupleAndKeywords(c.args, c.kwargs,
                    <<"pair", "num", "pair">>,
                    <<"crop_size", "eyes_distance", "eyes_center">>)
         IN  [form |-> form, size |-> p.v[1], a |-> p.v[2], b |-> p.v[3]]
    [] OTHER -> [form |-> form]

\* ------------------------------------------ bob::ip::base::WeightedGaussian
\* WeightedGaussian.h declares the class and defines its getters, its setters
\* and the filter templates inline.  The constructor, computeKernel() and
\* filter_() are defined in a file that is not among the sources; they are
\* modelled from the specification (section 4.3), and so is the border
\* extrapolation of bob::sp.
\*
\* Number representation.  A sigma is held by its square (1 for 1.0, 2 for
\* sqrt(2.)).  exp(-x) is fixed point with three decimals, read
\* from a table indexed by x in eighths.  A kernel is [shape, num, den]: its
\* entry (i, j) is the rational num[<<i, j>>] / den.  A pixel of a double
\* image counts halves like every other double; a filtered pixel is the
\* rational <<n, d>> in lowest terms.

BorderTypes == {"Mirror", "Zero", "NearestNeighbour", "Circular"}

\* How filter_ attenuates a kernel entry: both policies give a neighbour
\* that differs more from the centre pixel a smaller weight.
AttenuationPolicies == {"Reciprocal", "Cutoff"}

Radii == 0..MaxRadius

Sigmas == {1, 2}

\* round(1000 * exp(-n / 8)) for n = 0, 1, ...; 0 from n = 61 on.
ExpTable ==
  <<1000, 882, 779, 687, 607, 535, 472, 417, 368, 325, 287, 253, 223, 197,
    174, 153, 135, 119, 105, 93, 82, 72, 64, 56, 50, 44, 39, 34, 30, 27, 24,
    21, 18, 16, 14, 13, 11, 10, 9, 8, 7, 6, 5, 5, 4, 4, 3, 3, 2, 2, 2, 2, 2,
    1, 1, 1, 1, 1, 1, 1, 1>>

ExpNeg(n) == IF n < Len(ExpTable) THEN ExpTable[n + 1] ELSE 0

\* a / b in lowest terms, b > 0.
Rational(a, b) == <<a \div Gcd(Abs(a), b), b \div Gcd(Abs(a), b)>>

Pixels(shape) == (0..(shape[1] - 1)) \X (0..(shape[2] - 1))

\* exp(-(di^2 / (2 sigma_y^2) + dj^2 / (2 sigma_x^2)))
Gaussian(di, dj, sigma_y, sigma_x) ==
  ExpNeg((4 * di * di) \div sigma_y + (4 * dj * dj) \div sigma_x)

\* The n-th entry (row by row) of the Gaussian grid of w's parameters,
\* before normalisation.
KernelEntry(w, n) ==
  Gaussian((n \div (2 * w.m_radius_x + 1)) - w.m_radius_y,
           (n % (2 * w.m_radius_x + 1)) - w.m_radius_x,
           w.m_sigma_y, w.m_sigma_x)

RECURSIVE KernelSum(_, _)
KernelSum(w, n) ==
  IF n = 0 THEN 0 ELSE KernelEntry(w, n - 1) + KernelSum(w, n - 1)

\* The parameters a kernel can be built from: radii that are not negative
\* and sigmas that are positive.  A sigma that is not positive is written 0
\* (for 0.0) or -s (for -sqrt(s)); a size_t that an int below 0 was
\* converted to is written as that int (its two's complement reading).
ValidConfiguration(w) ==
  /\ w.m_radius_y >= 0 /\ w.m_radius_x >= 0
  /\ w.m_sigma_y > 0 /\ w.m_sigma_x > 0

\* void computeKernel(): the grid, normalised so that it sums to 1.  With
\* parameters no kernel can be built from it raises
\* InvalidConfigurationError and leaves m_kernel as it is.
computeKernel(w) ==
  LET shape == <<2 * w.m_radius_y + 1, 2 * w.m_radius_x + 1>>
  IN  IF ~ValidConfiguration(w) THEN w
      ELSE [w EXCEPT !.m_kernel =
              [shape |-> shape,
               num   |-> [p \in Pixels(shape) |->
                            KernelEntry(w, p[1] * shape[2] + p[2])],
               den   |-> KernelSum(w, shape[1] * shape[2])]]

\* WeightedGaussian(radius_y, radius_x, sigma_y, sigma_x, border_type)
WeightedGaussian(radius_y, radius_x, sigma_y, sigma_x, border_type) ==
  computeKernel([m_radius_y |-> radius_y, m_radius_x |-> radius_x,
                 m_sigma_y |-> sigma_y, m_sigma_x |-> sigma_x,
                 m_conv_border |-> border_type,
                 m_kernel |-> [shape |-> <<0, 0>>, num |-> <<>>, den |-> 0]])

\* Getters
getRadiusY(w) == w.m_radius_y
getRadiusX(w) == w.m_radius_x
getSigmaY(w) == w.m_sigma_y
getSigmaX(w) == w.m_sigma_x
getConvBorder(w) == w.m_conv_border
getUnweightedKernel(w) == w.m_kernel

\* A setter of the class that assigns its member and leaves the kernel as it
\* was (what setSigmaX would be without its call of computeKernel).
setSigmaX_NoRecompute(w, sigma_x) == [w EXCEPT !.m_sigma_x = sigma_x]

\* Setters
setRadiusY(w, radius_y) == computeKernel([w EXCEPT !.m_radius_y = radius_y])

setRadiusX(w, radius_x) == computeKernel([w EXCEPT !.m_radius_x = radius_x])

setRadius(w, radius) ==
  computeKernel([w EXCEPT !.m_radius_y = radius[1], !.m_radius_x = radius[2]])

setSigmaY(w, sigma_y) == computeKernel([w EXCEPT !.m_sigma_y = sigma_y])

setSigmaX(w, sigma_x) == computeKernel([w EXCEPT !.m_sigma_x = sigma_x])

setSigma(w, sigma) ==
  computeKernel([w EXCEPT !.m_sigma_y = sigma[1], !.m_sigma_x = sigma[2]])

setConvBorder(w, border_type) == [w EXCEPT !.m_conv_border = border_type]

\* bob::sp extrapolation: the pixel of src at (y, x), inside or outside it.
MirrorIndex(i, n) ==
  IF (i % (2 * n)) < n THEN i % (2 * n) ELSE 2 * n - 1 - (i % (2 * n))

NearestIndex(i, n) == IF i < 0 THEN 0 ELSE IF i > n - 1 THEN n - 1 ELSE i

Extrapolate(src, border_type, y, x) ==
  CASE border_type = "Zero" ->
         IF <<y, x>> \in Pixels(src.shape) THEN src.v[<<y, x>>] ELSE 0
    [] border_type = "NearestNeighbour" ->
         src.v[<<NearestIndex(y, src.shape[1]), NearestIndex(x, src.shape[2])>>]
    [] border_type = "Circular" ->
         src.v[<<y % src.shape[1], x % src.shape[2]>>]
    [] OTHER ->
         src.v[<<MirrorIndex(y, src.shape[1]), MirrorIndex(x, src.shape[2])>>]

\* The factor (in hundredths) a kernel entry is attenuated by when its
\* neighbour differs from the centre pixel by diff.
Attenuation(policy, diff) ==
  CASE policy = "Reciprocal" -> 100 \div (1 + Abs(diff))
    [] OTHER -> IF diff = 0 THEN 100 ELSE 0

\* The neighbour of pixel p under the n-th kernel entry.
Neighbour(w, src, p, n) ==
  Extrapolate(src, w.m_conv_border,
              p[1] + (n \div w.m_kernel.shape[2]) - w.m_radius_y,
              p[2] + (n % w.m_kernel.shape[2]) - w.m_radius_x)

\* The n-th entry of the kernel reweighted for pixel p.  The entries are
\* renormalised below, so the common denominator of the base kernel drops out.
Weight(w, policy, src, p, n) ==
  w.m_kernel.num[<<n \div w.m_kernel.shape[2], n % w.m_kernel.shape[2]>>]
    * Attenuation(policy, Neighbour(w, src, p, n) - src.v[p])

RECURSIVE WeightSum(_, _, _, _, _)
WeightSum(w, policy, src, p, n) ==
  IF n = 0 THEN 0
  ELSE Weight(w, policy, src, p, n - 1) + WeightSum(w, policy, src, p, n - 1)

RECURSIVE ValueSum(_, _, _, _, _)
ValueSum(w, policy, src, p, n) ==
  IF n = 0 THEN 0
  ELSE Weight(w, policy, src, p, n - 1) * Neighbour(w, src, p, n - 1)
       + ValueSum(w, policy, src, p, n - 1)

\* void filter_(src, dst): every pixel is the sum of its neighbours weighted
\* by the reweighted kernel renormalised to sum to 1.
filter_(w, policy, src) ==
  [shape |-> src.shape,
   v |-> [p \in Pixels(src.shape) |->
            Rational(
              ValueSum(w, policy, src, p,
                       w.m_kernel.shape[1] * w.m_kernel.shape[2]),
              WeightSum(w, policy, src, p,
                        w.m_kernel.shape[1] * w.m_kernel.shape[2]))]]

\* bob::core::array::cast<double>
cast(src) == [src EXCEPT !.v = [p \in DOMAIN src.v |-> IntToDouble(src.v[p])]]

\* A filter template that hands the image to filter_ as it is (what filter
\* would be without its cast).
filter_NoCast(w, policy, src) == filter_(w, policy, src)

\* template <typename T> void filter(src, dst), two dimensions
filter(w, policy, src) == filter_(w, policy, cast(src))

\* bob::core::array::assertSameDimensionLength
assertSameDimensionLength(d1, d2) == d1 = d2

\* The loop of the 3D template from plane p on: each plane of dst is
\* overwritten with the 2D filter of the same plane of src.  Plane p of the
\* code is element p + 1 of the sequence.
RECURSIVE filterPlanes(_, _, _, _, _)
filterPlanes(w, policy, src, dst, p) ==
  IF p >= Len(dst) THEN dst
  ELSE filterPlanes(w, policy, src,
                    [dst EXCEPT ![p + 1] = filter(w, policy, src[p + 1])],
                    p + 1)

\* A 3D template that smooths every plane of dst from the first plane of src.
filter3D_FirstPlane(w, policy, src, dst) ==
  IF ~assertSameDimensionLength(Len(src), Len(dst))
    THEN [res |-> "ShapeMismatchError", dst |-> dst]
    ELSE [res |-> "ok",
          dst |-> [p \in 1..Len(dst) |-> filter(w, policy, src[1])]]

\* template <typename T> void filter(src, dst), three dimensions
filter3D(w, policy, src, dst) ==
  IF ~assertSameDimensionLength(Len(src), Len(dst))
    THEN [res |-> "ShapeMismatchError", dst |-> dst]
    ELSE [res |-> "ok", dst |-> filterPlanes(w, policy, src, dst, 0)]

\* filter_ step by step.  The class keeps its work arrays in the instance:
\* m_src_extra holds the source extrapolated by the radius on every side and
\* m_kernel_weighted the kernel reweighted for the pixel being computed.
\* (m_src_integral is not described by the specification and is left out.)
KernelSize(w) == w.m_kernel.shape[1] * w.m_kernel.shape[2]

\* Where the n-th kernel entry lies when the kernel is centred on pixel p.
NeighbourAt(w, p, n) ==
  <<p[1] + (n \div w.m_kernel.shape[2]) - w.m_radius_y,
    p[2] + (n % w.m_kernel.shape[2]) - w.m_radius_x>>

\* m_src_extra after the extrapolation of src.
extrapolated(w, src) ==
  [q \in ((-w.m_radius_y)..(src.shape[1] - 1 + w.m_radius_y))
         \X ((-w.m_radius_x)..(src.shape[2] - 1 + w.m_radius_x)) |->
     Extrapolate(src, w.m_conv_border, q[1], q[2])]

\* f[0] + ... + f[n - 1]
RECURSIVE Total(_, _)
Total(f, n) == IF n = 0 THEN 0 ELSE f[n - 1] + Total(f, n - 1)

\* The kernel entries attenuated for pixel p of the extrapolated source.
attenuated(w, policy, extra, p) ==
  [n \in 0..(KernelSize(w) - 1) |->
     w.m_kernel.num[<<n \div w.m_kernel.shape[2], n % w.m_kernel.shape[2]>>]
       * Attenuation(policy, extra[NeighbourAt(w, p, n)] - extra[p])]

\* A reweighted kernel left with the normalisation of the base kernel.
reweighted_NotRenormalized(w, policy, extra, p) ==
  [num |-> attenuated(w, policy, extra, p), den |-> 100 * w.m_kernel.den]

\* m_kernel_weighted for pixel p: the attenuated entries, renormalised to
\* sum to 1 (entry n is num[n] / den).
reweighted(w, policy, extra, p) ==
  [num |-> attenuated(w, policy, extra, p),
   den |-> Total(attenuated(w, policy, extra, p), KernelSize(w))]

\* The weighted sum of the neighbours of p under the kernel kw.
weightedSum(w, kw, extra, p) ==
  Rational(Total([n \in 0..(KernelSize(w) - 1) |->
                    kw.num[n] * extra[NeighbourAt(w, p, n)]], KernelSize(w)),
           kw.den)

\* The i-th pixel of an image of the given shape, row by row.
PixelAt(shape, i) == <<i \div shape[2], i % shape[2]>>

\* The images filtered: 3 x 3, constant or with a single pixel standing out,
\* in a corner or in the middle.
ImageShape == <<3, 3>>

ConstantImage(c) == [shape |-> ImageShape, v |-> [p \in Pixels(ImageShape) |-> c]]

Images ==
  {ConstantImage(c) : c \in 0..MaxPix}
  \cup {[shape |-> ImageShape,
         v |-> [p \in Pixels(ImageShape) |-> IF p = q THEN c ELSE 0]] :
          q \in {<<0, 0>>, <<1, 1>>}, c \in 1..MaxPix}

\* The radii and sigmas a caller may hand over, the undocumented ones
\* included: a negative radius, a zero and a negative sigma.
AnyRadii == (-1)..MaxRadius

AnySigmas == Sigmas \cup {0, -1}

\* The images handed to the filter calls that run step by step.
StepShape == <<1, 2>>

StepImages ==
  {[shape |-> StepShape, v |-> f] : f \in [Pixels(StepShape) -> 0..MaxPix]}

Threads == {1, 2}

Idle == [pc |-> "idle", src |-> [shape |-> <<0, 0>>, v |-> <<>>], p |-> 0,
         dst |-> <<>>]

NoScratch == [m_src_extra |-> <<>>, m_kernel_weighted |-> [num |-> <<>>, den |-> 0]]

\* The planes stacked for the 3D filter and the stacks made of them.
Planes ==
  {ConstantImage(1),
   [shape |-> ImageShape,
    v |-> [p \in Pixels(ImageShape) |-> IF p = <<0, 0>> THEN 1 ELSE 0]]}

Stacks == UNION {[1..n -> Planes] : n \in 1..MaxPlanes}

\* A plane of the caller's output before the call: no filter produces it.
Blank == [shape |-> ImageShape, v |-> [p \in Pixels(ImageShape) |-> <<-1, 1>>]]

\* ---------------------------------------------------------------- actions
\* No filter call is under way in any thread.
NoThreads == UNCHANGED <<scratch, thr>>

NoWG == UNCHANGED <<wg, wgcall, attenuation>> /\ NoThreads

NoFEN == UNCHANGED <<fen, built, call, nops>> /\ NoThreads

\* The caller is a straight-line script: it makes at most MaxOps calls and
\* the first call that raises ends it.
Running == nops < MaxOps /\ (IF call.op = "none" THEN TRUE ELSE call.res = "ok")

\* obj = FaceEyesNorm(...)
Construct(i) ==
  /\ Running
  /\ fen[i].cxx = Null
  /\ \E c \in InitCalls(fen) :
     \E seq \in IF Len(c.args) > 1 THEN BOOLEAN ELSE {FALSE} :
     \E r \in {PyBobIpBaseFaceEyesNorm_init(fen, i, c.args, c.kwargs, seq)} :
       /\ fen' = [fen EXCEPT ![i].cxx = r.cxx]
       /\ built' = IF r.res = "ok"
                     THEN [built EXCEPT ![i] = BuiltOf(c, r.form)]
                     ELSE built
       /\ call' = [op |-> "init", self |-> i, res |-> r.res,
                   form |-> r.form,
                   nargs |-> NArgs(c.args, c.kwargs),
                   other |-> IF r.form = "copy" THEN c.args[1].v ELSE 0]
  /\ nops' = nops + 1
  /\ NoWG

\* obj = FaceEyesNorm(...) with any of the calls of AnyInitCalls; the call
\* is kept beside its outcome.
ConstructAny(i) ==
  /\ Running
  /\ fen[i].cxx = Null
  /\ \E c \in AnyInitCalls(fen) :
     \E seq \in IF Len(c.args) > 1 THEN BOOLEAN ELSE {FALSE} :
     \E r \in {PyBobIpBaseFaceEyesNorm_init(fen, i, c.args, c.kwargs, seq)} :
       /\ fen' = [fen EXCEPT ![i].cxx = r.cxx]
       /\ built' = IF r.res = "ok"
                     THEN [built EXCEPT ![i] = BuiltOf(c, r.form)]
                     ELSE built
       /\ call' = [op |-> "init", self |-> i, res |-> r.res,
                   form |-> r.form,
                   nargs |-> NArgs(c.args, c.kwargs),
                   args |-> c.args, kwargs |-> c.kwargs]
  /\ nops' = nops + 1
  /\ NoWG

AttrNames == DOMAIN PyBobIpBaseFaceEyesNorm_getseters

\* obj.<name> = value
WriteProperty(i) ==
  /\ Running
  /\ fen[i].cxx # Null
  /\ \E name \in AttrNames : \E value \in AttrValues(name) :
     \E r \in {SetAttribute(fen[i].cxx, name, value)} :
       /\ fen' = [fen EXCEPT ![i].cxx = r.cxx]
       /\ built' = IF r.res = "ok"
                     THEN [built EXCEPT ![i] = [form |-> "none"]]
                     ELSE built
       /\ call' = [op |-> "setattr", self |-> i, res |-> r.res,
                   name |-> name, value |-> value]
  /\ nops' = nops + 1
  /\ NoWG

\* obj.extract(...) / obj(...), the call drawn from calls
ExtractFrom(i, calls) ==
  /\ Running
  /\ fen[i].cxx # Null
  /\ \E c \in calls :
     \E r \in {PyBobIpBaseFaceEyesNorm_extract(fen[i].cxx, c.args, c.kwargs)} :
     \E d \in {Documented(c)} :
       /\ fen' = [fen EXCEPT ![i].cxx = r.cxx]
       /\ call' = [op |-> "extract", self |-> i, res |-> r.res,
                   ret |-> r.ret,
                   nargs |-> NArgs(c.args, c.kwargs),
                   inType |-> d.input.type, inNdim |-> d.input.ndim,
                   outType |-> TypeOf(d.output),
                   wellFormed |-> WellFormed(fen[i].cxx, d),
                   degenerate |-> (d.right = d.left),
                   applied |-> IF r.res = "ok" THEN <<d.right, d.left>>
                               ELSE <<>>,
                   outBefore |-> DataOf(d.output),
                   outAfter |-> DataOf(r.output),
                   maskBefore |-> DataOf(d.output_mask),
                   maskAfter |-> DataOf(r.output_mask),
                   returned |-> IF r.ret = "array" THEN r.output
                                ELSE NoArray]
  /\ nops' = nops + 1
  /\ UNCHANGED built
  /\ NoWG

Extract(i) == ExtractFrom(i, ExtractCalls)

ExtractPlain(i) == ExtractFrom(i, PlainCalls)

\* The WeightedGaussian calls.
SetRadiusY ==
  /\ \E r \in Radii : wg' = setRadiusY(wg, r)
  /\ wgcall' = [op |-> "setRadiusY"]
  /\ UNCHANGED attenuation /\ NoFEN

SetRadiusX ==
  /\ \E r \in Radii : wg' = setRadiusX(wg, r)
  /\ wgcall' = [op |-> "setRadiusX"]
  /\ UNCHANGED attenuation /\ NoFEN

SetRadius ==
  /\ \E r \in Radii \X Radii : wg' = setRadius(wg, r)
  /\ wgcall' = [op |-> "setRadius"]
  /\ UNCHANGED attenuation /\ NoFEN

SetSigmaY ==
  /\ \E s \in Sigmas : wg' = setSigmaY(wg, s)
  /\ wgcall' = [op |-> "setSigmaY"]
  /\ UNCHANGED attenuation /\ NoFEN

SetSigmaX ==
  /\ \E s \in Sigmas : wg' = setSigmaX(wg, s)
  /\ wgcall' = [op |-> "setSigmaX"]
  /\ UNCHANGED attenuation /\ NoFEN

SetSigma ==
  /\ \E s \in Sigmas \X Sigmas : wg' = setSigma(wg, s)
  /\ wgcall' = [op |-> "setSigma"]
  /\ UNCHANGED attenuation /\ NoFEN

SetConvBorder ==
  /\ \E b \in BorderTypes : wg' = setConvBorder(wg, b)
  /\ wgcall' = [op |-> "setConvBorder"]
  /\ UNCHANGED attenuation /\ NoFEN

\* filter(src, dst)
Filter ==
  /\ \E src \in Images : \E dst \in {filter(wg, attenuation, src)} :
       wgcall' = [op |-> "filter", src |-> src, dst |-> dst]
  /\ UNCHANGED <<wg, attenuation>> /\ NoFEN

\* What a configuring call that left the instance as w reports: it raised if
\* and only if computeKernel did.  invalid tells whether an argument of the
\* call was a negative radius or a non-positive sigma.
Configured(name, w, invalid) ==
  [op |-> name, invalid |-> invalid, before |-> wg,
   res |-> IF ValidConfiguration(w) THEN "ok"
           ELSE "InvalidConfigurationError"]

\* The configuring script goes on until a call raises.
Configuring == IF wgcall.op = "none" THEN TRUE ELSE wgcall.res = "ok"

\* w = WeightedGaussian(radius_y, radius_x, sigma_y, sigma_x): a constructor
\* that raises makes no instance, the variable keeps the one it had.
TryConstruct ==
  /\ Configuring
  /\ \E ry \in AnyRadii, rx \in AnyRadii, sy \in AnySigmas, sx \in AnySigmas :
     \E w \in {WeightedGaussian(ry, rx, sy, sx, "Mirror")} :
       /\ wg' = IF ValidConfiguration(w) THEN w ELSE wg
       /\ wgcall' = Configured("construct", w,
                                ry < 0 \/ rx < 0 \/ sy <= 0 \/ sx <= 0)
  /\ UNCHANGED attenuation /\ NoFEN

TrySetRadiusY ==
  /\ Configuring
  /\ \E r \in AnyRadii : \E w \in {setRadiusY(wg, r)} :
       wg' = w /\ wgcall' = Configured("setRadiusY", w, r < 0)
  /\ UNCHANGED attenuation /\ NoFEN

TrySetRadiusX ==
  /\ Configuring
  /\ \E r \in AnyRadii : \E w \in {setRadiusX(wg, r)} :
       wg' = w /\ wgcall' = Configured("setRadiusX", w, r < 0)
  /\ UNCHANGED attenuation /\ NoFEN

TrySetRadius ==
  /\ Configuring
  /\ \E r \in AnyRadii \X AnyRadii : \E w \in {setRadius(wg, r)} :
       wg' = w /\ wgcall' = Configured("setRadius", w, r[1] < 0 \/ r[2] < 0)
  /\ UNCHANGED attenuation /\ NoFEN

TrySetSigmaY ==
  /\ Configuring
  /\ \E x \in AnySigmas : \E w \in {setSigmaY(wg, x)} :
       wg' = w /\ wgcall' = Configured("setSigmaY", w, x <= 0)
  /\ UNCHANGED attenuation /\ NoFEN

TrySetSigmaX ==
  /\ Configuring
  /\ \E x \in AnySigmas : \E w \in {setSigmaX(wg, x)} :
       wg' = w /\ wgcall' = Configured("setSigmaX", w, x <= 0)
  /\ UNCHANGED attenuation /\ NoFEN

TrySetSigma ==
  /\ Configuring
  /\ \E x \in AnySigmas \X AnySigmas : \E w \in {setSigma(wg, x)} :
       wg' = w /\ wgcall' = Configured("setSigma", w, x[1] <= 0 \/ x[2] <= 0)
  /\ UNCHANGED attenuation /\ NoFEN

\* filter(src, dst) on 3D arrays; the script ends with it.
Filter3D ==
  /\ wgcall.op # "filter3D"
  /\ \E src \in Stacks : \E n \in 1..MaxPlanes :
     \E r \in {filter3D(wg, attenuation, src, [p \in 1..n |-> Blank])} :
       wgcall' = [op |-> "filter3D", src |-> src, res |-> r.res,
                  before |-> [p \in 1..n |-> Blank], dst |-> r.dst]
  /\ UNCHANGED <<wg, attenuation>> /\ NoFEN

\* Thread t calls filter(src, dst): the template casts src, filter_ starts.
Begin(t) ==
  /\ thr[t].pc = "idle"
  /\ \E src \in StepImages :
       thr' = [thr EXCEPT ![t] = [pc |-> "extrapolate", src |-> cast(src),
                                  p |-> 0,
                                  dst |-> [q \in Pixels(src.shape) |-> <<-1, 1>>]]]
  /\ UNCHANGED <<scratch, wg, wgcall, attenuation, fen, built, call, nops>>

\* filter_ in thread t extrapolates its source into m_src_extra.
ExtrapolateSource(t) ==
  /\ thr[t].pc = "extrapolate"
  /\ scratch' = [scratch EXCEPT !.m_src_extra = extrapolated(wg, thr[t].src)]
  /\ thr' = [thr EXCEPT ![t].pc = "reweight"]
  /\ UNCHANGED <<wg, wgcall, attenuation, fen, built, call, nops>>

\* filter_ in thread t writes the kernel reweighted for its current pixel
\* into m_kernel_weighted.
ReweightKernel(t) ==
  /\ thr[t].pc = "reweight"
  /\ scratch' = [scratch EXCEPT !.m_kernel_weighted =
                   reweighted(wg, attenuation, scratch.m_src_extra,
                              PixelAt(thr[t].src.shape, thr[t].p))]
  /\ thr' = [thr EXCEPT ![t].pc = "sum"]
  /\ UNCHANGED <<wg, wgcall, attenuation, fen, built, call, nops>>

\* filter_ in thread t stores the weighted sum for its current pixel in dst
\* and moves to the next pixel.
SumNeighbours(t) ==
  /\ thr[t].pc = "sum"
  /\ thr' = [thr EXCEPT
               ![t].dst[PixelAt(thr[t].src.shape, thr[t].p)] =
                  weightedSum(wg, scratch.m_kernel_weighted,
                              scratch.m_src_extra,
                              PixelAt(thr[t].src.shape, thr[t].p)),
               ![t].p = thr[t].p + 1,
               ![t].pc = IF thr[t].p + 1
                             < thr[t].src.shape[1] * thr[t].src.shape[2]
                           THEN "reweight" ELSE "done"]
  /\ UNCHANGED <<scratch, wg, wgcall, attenuation, fen, built, call, nops>>

InitThreads ==
  /\ scratch = NoScratch
  /\ thr = [t \in Threads |-> Idle]

InitFen ==
  /\ fen = [i \in Objs |-> [cxx |-> Null]]
  /\ built = [i \in Objs |-> [form |-> "none"]]
  /\ call = [op |-> "none"]
  /\ nops = 0
  /\ InitThreads

\* A default-constructed WeightedGaussian that is left alone.
Init ==
  /\ InitFen
  /\ wg = WeightedGaussian(DefaultRadius, DefaultRadius, DefaultSigma,
                           DefaultSigma, "Mirror")
  /\ wgcall = [op |-> "none"]
  /\ attenuation = "Reciprocal"

\* One object, every form of extract call.
Next ==
  \/ Construct(1)
  \/ WriteProperty(1)
  \/ Extract(1)

Spec == Init /\ [][Next]_vars

\* Two objects, extract in its plain form.
NextPair ==
  \E i \in Objs :
    \/ Construct(i)
    \/ WriteProperty(i)
    \/ ExtractPlain(i)

SpecPair == Init /\ [][NextPair]_vars

\* A WeightedGaussian constructed with any parameters, then reconfigured and
\* used; no FaceEyesNorm object is made.
InitWG ==
  /\ InitFen
  /\ \E ry \in Radii, rx \in Radii, sy \in Sigmas, sx \in Sigmas,
        b \in BorderTypes : wg = WeightedGaussian(ry, rx, sy, sx, b)
  /\ wgcall = [op |-> "none"]
  /\ attenuation \in AttenuationPolicies

NextWG ==
  \/ SetRadiusY
  \/ SetRadiusX
  \/ SetRadius
  \/ SetSigmaY
  \/ SetSigmaX
  \/ SetSigma
  \/ SetConvBorder
  \/ Filter

SpecWG == InitWG /\ [][NextWG]_vars

\* A WeightedGaussian constructed with any parameters, its border type set
\* or not, then applied to a stack of planes.
Next3D ==
  \/ SetConvBorder
  \/ Filter3D

Spec3D == InitWG /\ [][Next3D]_vars

\* Two objects, constructed with any arguments.
NextInit == \E i \in Objs : ConstructAny(i)

SpecInit == Init /\ [][NextInit]_vars

\* A default-constructed WeightedGaussian configured with any arguments.
NextConfigure ==
  \/ TryConstruct
  \/ TrySetRadiusY
  \/ TrySetRadiusX
  \/ TrySetRadius
  \/ TrySetSigmaY
  \/ TrySetSigmaX
  \/ TrySetSigma

SpecConfigure == Init /\ [][NextConfigure]_vars

\* A WeightedGaussian constructed with any parameters and reconfigured, then
\* one filter call followed step by step.
SetRadiusFirst == thr[1].pc = "idle" /\ SetRadius

SetSigmaFirst == thr[1].pc = "idle" /\ SetSigma

NextKernel ==
  \/ SetRadiusFirst
  \/ SetSigmaFirst
  \/ Begin(1)
  \/ ExtrapolateSource(1)
  \/ ReweightKernel(1)
  \/ SumNeighbours(1)

SpecKernel == InitWG /\ [][NextKernel]_vars

\* Two threads, each making one filter call on the same WeightedGaussian,
\* which nobody reconfigures.
InitConcurrent ==
  /\ InitFen
  /\ \E ry \in Radii, rx \in Radii, b \in BorderTypes :
       wg = WeightedGaussian(ry, rx, DefaultSigma, DefaultSigma, b)
  /\ wgcall = [op |-> "none"]
  /\ attenuation \in AttenuationPolicies

NextConcurrent ==
  \E t \in Threads :
    \/ Begin(t)
    \/ ExtrapolateSource(t)
    \/ ReweightKernel(t)
    \/ SumNeighbours(t)

SpecConcurrent == InitConcurrent /\ [][NextConcurrent]_vars

\* ------------------------------------------------------------------ claims
Constructed(i) == fen[i].cxx # Null

\* C1: align/extract called in the allocating form (exactly the three
\* arguments input, right_eye, left_eye, a 2D input of a supported element
\* type, distinct landmarks) succeeds and returns a freshly allocated float64
\* image whose shape is the configured crop_size; called with a
\* caller-supplied output (4 or 6 arguments) it fills that output and
\* returns nothing.
C1_AllocatingFormReturnsImage ==
  call.op = "extract" =>
    /\ (/\ call.nargs = 3
        /\ call.inNdim = 2
        /\ call.inType \in SupportedTypes
        /\ ~call.degenerate)
         => /\ call.res = "ok"
            /\ call.returned = Array("float64", 2,
                                     fen[call.self].cxx.cropSize, Resampled)
    /\ (call.nargs \in {4, 6} /\ call.res = "ok")
         => /\ call.ret = "None"
            /\ call.outAfter = Resampled

\* The part of C1 about a caller-supplied output, which holds.
C1_SuppliedOutputFilled ==
  (call.op = "extract" /\ call.nargs \in {4, 6} /\ call.res = "ok")
    => /\ call.ret = "None"
       /\ call.outAfter = Resampled

\* C2: for every input image and every configuration, align with
\* right = left (observed landmark distance zero) fails with
\* DegenerateLandmarksError instead of producing an output.
C2_DegenerateLandmarksRejected ==
  (/\ call.op = "extract"
   /\ call.nargs \in {3, 4, 6}
   /\ call.wellFormed
   /\ call.inType \in SupportedTypes
   /\ call.degenerate)
    => /\ call.res = "DegenerateLandmarksError"
       /\ call.outAfter = call.outBefore

\* C2 for the calls that supply an output, which holds.
C2_WithOutputSupplied ==
  (/\ call.op = "extract"
   /\ call.nargs \in {4, 6}
   /\ call.wellFormed
   /\ call.inType \in SupportedTypes
   /\ call.degenerate)
    => /\ call.res = "DegenerateLandmarksError"
       /\ call.outAfter = call.outBefore

\* What C3 says of an extract call of one of the documented forms.
ElementTypesEnforced ==
  /\ (call.wellFormed /\ ~call.degenerate /\ call.inType \in SupportedTypes)
       => call.res = "ok"
  /\ (call.wellFormed /\ call.inType \notin SupportedTypes)
       => call.res = "UnsupportedElementTypeError"
  /\ call.outType \notin {"none", "float64"} => call.res # "ok"
  /\ (call.res = "ok" /\ call.outType # "none") => call.outType = "float64"
  /\ (call.res = "ok" /\ call.outType = "none")
       => call.returned # NoArray /\ call.returned.type = "float64"

\* C3: align accepts an input whose element type is 8-bit unsigned, 16-bit
\* unsigned or 64-bit float and rejects every other element type with
\* UnsupportedElementTypeError; a supplied output whose element type is not
\* float64 is rejected, so every produced output is float64.
C3_ElementTypesEnforced ==
  (call.op = "extract" /\ call.nargs \in {3, 4, 6}) => ElementTypesEnforced

\* C3 for the calls that supply an output, which holds.
C3_WithOutputSupplied ==
  (call.op = "extract" /\ call.nargs \in {4, 6}) => ElementTypesEnforced

\* C4: whenever align with a caller-supplied output (and output_mask) fails,
\* for whatever reason, the supplied output and output_mask hold exactly what
\* they held before the call.
C4_FailedExtractLeavesBuffers ==
  (call.op = "extract" /\ call.res # "ok")
    => /\ call.outAfter = call.outBefore
       /\ call.maskAfter = call.maskBefore

\* A call with masks that got as far as the class and failed there.
C4_FailedWithBuffers ==
  /\ call.op = "extract"
  /\ call.nargs = 6
  /\ call.res \in {"ShapeMismatchError", "DegenerateLandmarksError"}
  /\ call.outBefore = "caller"
  /\ call.outAfter = "caller"
  /\ call.maskAfter = "caller"

SameConfiguration(a, b) ==
  /\ a.cropSize = b.cropSize
  /\ a.eyesDistance = b.eyesDistance
  /\ a.eyesAngle = b.eyesAngle
  /\ a.cropOffset = b.cropOffset

Equal(objs, i, j) == PyBobIpBaseFaceEyesNorm_RichCompare(objs[i], objs[j], "Py_EQ")

Unequal(objs, i, j) == PyBobIpBaseFaceEyesNorm_RichCompare(objs[i], objs[j], "Py_NE")

\* C5: two instances compare equal (== true and != false) exactly when their
\* crop_size, eyes_distance, eyes_angle and crop_offset are pairwise equal;
\* last_angle, last_scale and last_offset do not count, so an align call on
\* either of two equal instances leaves them equal.
C5_EqualityIsConfigurationEquality ==
  [][\A i, j \in Objs :
       (fen'[i].cxx # Null /\ fen'[j].cxx # Null) =>
         /\ Equal(fen', i, j) = SameConfiguration(fen'[i].cxx, fen'[j].cxx)
         /\ Unequal(fen', i, j) = ~SameConfiguration(fen'[i].cxx, fen'[j].cxx)
         /\ (call'.op = "extract" /\ Equal(fen, i, j)) => Equal(fen', i, j)
    ]_vars

\* Two equal instances, one of which has aligned an image since.
C5_EqualAfterAlign ==
  /\ Constructed(1) /\ Constructed(2)
  /\ call.op = "extract" /\ call.res = "ok"
  /\ fen[1].cxx.lastScale # fen[2].cxx.lastScale
  /\ Equal(fen, 1, 2)
  /\ ~Unequal(fen, 1, 2)

\* Instance e was built from two targets on a horizontal line and instance d
\* from their distance and their midpoint, with the same crop size.
Matches(e, d) ==
  /\ e.form = "eyes"
  /\ d.form = "distance"
  /\ d.size = e.size
  /\ e.a[1] = e.b[1]
  /\ d.a = Abs(e.b[2] - e.a[2])
  /\ d.b = Midpoint(e.a, e.b)

CopyEqualsOriginal ==
  (call.op = "init" /\ call.res = "ok" /\ call.form = "copy")
    => Equal(fen, call.self, call.other)

C7_PositiveCropAndScale ==
  /\ \A i \in Objs : Constructed(i) => Positive(fen[i].cxx.cropSize)
  /\ (call.op = "extract" /\ call.res = "ok")
       => fen[call.self].cxx.lastScale.sgn > 0
  /\ (/\ call.op = "setattr"
      /\ call.name = "crop_size"
      /\ call.value.t = "pair"
      /\ ~Positive(<<DoubleToInt(call.value.v[1]),
                     DoubleToInt(call.value.v[2])>>))
       => call.res = "InvalidConfigurationError"

\* The part of C7 about the crop size, which holds.
C7_PositiveCrop ==
  /\ \A i \in Objs : Constructed(i) => Positive(fen[i].cxx.cropSize)
  /\ (/\ call.op = "setattr"
      /\ call.name = "crop_size"
      /\ call.value.t = "pair"
      /\ ~Positive(<<DoubleToInt(call.value.v[1]),
                     DoubleToInt(call.value.v[2])>>))
       => call.res = "InvalidConfigurationError"

LastApplied(cxx) == <<cxx.lastAngle, cxx.lastScale, cxx.lastOffset>>

\* last_angle, last_scale and last_offset of cxx are those of an align with
\* the landmarks right and left.
ReflectsAlign(cxx, right, left) ==
  /\ cxx.lastOffset = Midpoint(right, left)
  /\ cxx.lastScale = DistRatio(cxx.eyesDistance,
                               Hypot(left[1] - right[1], left[2] - right[2]))
  /\ cxx.lastAngle = AngleSub(cxx.eyesAngle,
                              Atan2(left[1] - right[1], left[2] - right[2]))

\* C8: after each successful align the read-only properties reflect that call
\* and no earlier one: last_offset = (right + left) / 2, last_scale =
\* eyes_distance / |left - right|, last_angle = eyes_angle - the angle of
\* (left - right); and no property write changes any of the three.
C8_LastReflectsMostRecentAlign ==
  [][/\ (call'.op = "extract" /\ call'.res = "ok")
          => ReflectsAlign(fen'[call'.self].cxx, call'.applied[1],
                           call'.applied[2])
     /\ call'.op = "setattr"
          => LastApplied(fen'[call'.self].cxx) = LastApplied(fen[call'.self].cxx)
    ]_vars

\* A second successful align, with landmarks the other way round.
C8_AlignedTwice ==
  /\ call.op = "extract" /\ call.res = "ok"
  /\ nops = 3
  /\ call.applied = <<<<0, 2>>, <<0, 0>>>>
  /\ fen[1].cxx.lastOffset = <<0, 1>>
  /\ fen[1].cxx.lastAngle = AngleSub(fen[1].cxx.eyesAngle, <<0, -1>>)
  /\ fen[1].cxx.lastScale.sgn = 1

\* C9: after any sequence of setter calls the exposed base kernel is the
\* kernel computed from the current radius_y, radius_x, sigma_y, sigma_x and
\* has shape (2 radius_y + 1, 2 radius_x + 1); setConvBorder changes
\* border_type only.
C9_KernelNeverStale ==
  [][/\ getUnweightedKernel(wg') = getUnweightedKernel(computeKernel(wg'))
     /\ getUnweightedKernel(wg').shape
          = <<2 * getRadiusY(wg') + 1, 2 * getRadiusX(wg') + 1>>
     /\ DOMAIN getUnweightedKernel(wg').num
          = Pixels(<<2 * getRadiusY(wg') + 1, 2 * getRadiusX(wg') + 1>>)
     /\ wgcall'.op = "setConvBorder"
          => wg' = [wg EXCEPT !.m_conv_border = getConvBorder(wg')]
    ]_vars

\* After setSigmaX made the two sigmas differ on a 3 x 3 kernel.
C9_KernelRecomputed ==
  /\ wgcall.op = "setSigmaX"
  /\ wg.m_sigma_x # wg.m_sigma_y
  /\ wg.m_radius_y = 1 /\ wg.m_radius_x = 1
  /\ wg.m_kernel.num[<<1, 0>>] # wg.m_kernel.num[<<0, 1>>]
  /\ wg.m_kernel = computeKernel(wg).m_kernel

IsConstant(img, c) == \A p \in DOMAIN img.v : img.v[p] = c

\* Every pixel of the double image dst is exactly c.
AllEqual(dst, c) == \A p \in DOMAIN dst.v : dst.v[p] = <<IntToDouble(c), 1>>

C11_PlanesFilteredIndependently ==
  wgcall.op = "filter3D" =>
    IF Len(wgcall.src) = Len(wgcall.before)
      THEN /\ wgcall.res = "ok"
           /\ Len(wgcall.dst) = Len(wgcall.src)
           /\ \A p \in 1..Len(wgcall.dst) :
                wgcall.dst[p] = filter(wg, attenuation, wgcall.src[p])
      ELSE /\ wgcall.res = "ShapeMismatchError"
           /\ wgcall.dst = wgcall.before

\* Two different planes smoothed by one call into two different planes.
C11_TwoPlanesFiltered ==
  /\ wgcall.op = "filter3D"
  /\ wgcall.res = "ok"
  /\ Len(wgcall.src) = 2
  /\ wgcall.src[1] # wgcall.src[2]
  /\ wgcall.dst[1] # wgcall.dst[2]
  /\ wgcall.dst[2] = filter(wg, attenuation, wgcall.src[2])

\* A call whose plane counts differ.
C11_PlaneCountsDiffer ==
  /\ wgcall.op = "filter3D"
  /\ Len(wgcall.src) # Len(wgcall.before)
  /\ wgcall.res = "ShapeMismatchError"

\* What the filter call of thread t returns when it runs alone.
Alone(t) == filter_(wg, attenuation, thr[t].src).v

\* C12: two filter calls running concurrently on the same instance, with no
\* concurrent configuration writer, each produce exactly the output they
\* produce when run alone, under every interleaving of the two calls.
C12_ConcurrentFiltersAsAlone ==
  \A t \in Threads : thr[t].pc = "done" => thr[t].dst = Alone(t)

\* A filter call that ran while no other call was under way returns what
\* filter_ returns; this holds.
C12_FilterAloneAsSpecified ==
  \A t \in Threads :
    (thr[t].pc = "done" /\ \A u \in Threads \ {t} : thr[u].pc = "idle")
      => thr[t].dst = Alone(t)

\* The parameters and the base kernel of w.
Parameters(w) ==
  <<getRadiusY(w), getRadiusX(w), getSigmaY(w), getSigmaX(w),
    getUnweightedKernel(w)>>

\* C13: constructing a WeightedGaussianFilter with, or setting on it, a
\* negative radius or a non-positive sigma fails with
\* InvalidConfigurationError, and a failed setter leaves radius, sigma and
\* the base kernel unchanged.
C13_InvalidConfigurationRejected ==
  IF wgcall.op = "none" THEN TRUE
  ELSE /\ wgcall.invalid => wgcall.res = "InvalidConfigurationError"
       /\ (wgcall.op # "construct" /\ wgcall.res # "ok")
            => Parameters(wg) = Parameters(wgcall.before)

\* The part of C13 that holds: a call handed a negative radius or a
\* non-positive sigma raises InvalidConfigurationError, and no failed call
\* changes the base kernel.
C13_InvalidRaisesAndKernelKept ==
  IF wgcall.op = "none" THEN TRUE
  ELSE /\ wgcall.invalid => wgcall.res = "InvalidConfigurationError"
       /\ wgcall.res # "ok"
            => getUnweightedKernel(wg) = getUnweightedKernel(wgcall.before)

\* The kernel [num, den] sums to 1: its n entries num[i] / den do.
SumsToOne(num, den, n) == den > 0 /\ Total(num, n) = den

\* The entries of the base kernel k, row by row.
Entries(k) ==
  [n \in 0..(k.shape[1] * k.shape[2] - 1) |-> k.num[PixelAt(k.shape, n)]]

BeforeInit == [fen EXCEPT ![call.self].cxx = Null]

\* What the most recent constructor call returned and left in its object.
Outcome == [res |-> call.res, cxx |-> fen[call.self].cxx, form |-> call.form]

\* The second positional argument is a sequence.
SecondIsSequence == Len(call.args) > 1 /\ call.args[2].t = "pair"

\* The form the documentation selects for three arguments.
TwoLandmarkForm == SecondIsSequence \/ "right_eye" \in DOMAIN call.kwargs

\* What the documented dispatch gives for the most recent constructor call.
Dispatched ==
  CASE call.nargs = 1 ->
         Outcome = InitCopy(BeforeInit, call.self, call.args, call.kwargs)
    [] call.nargs = 3 ->
         Outcome = IF TwoLandmarkForm
                     THEN InitTwoEyes(BeforeInit, call.self, call.args,
                                      call.kwargs)
                     ELSE InitEyeDistance(BeforeInit, call.self, call.args,
                                          call.kwargs)
    [] OTHER ->
         /\ call.res = "WrongNumberOfParameters"
         /\ fen[call.self].cxx = Null

\* C15: construction dispatches on the number of positional plus keyword
\* arguments: 1 selects the copy form; 3 select the two-landmark form exactly
\* when the second positional argument is a sequence or the keyword
\* right_eye is present, and the distance form otherwise; every other count
\* fails with a TypeError and configures no instance.  Three positional
\* arguments whose second is a coordinate pair always yield the two-landmark
\* form.
C15_DispatchOnArguments ==
  call.op = "init" =>
    /\ Dispatched
    /\ (Len(call.args) = 3 /\ SecondIsSequence /\ call.res = "ok")
         => call.form = "eyes"

\* C15 for the calls with at most one positional argument, where the second
\* positional argument is never looked at; this holds.
C15_DispatchOnCountAndKeyword ==
  (call.op = "init" /\ Len(call.args) <= 1) => Dispatched

====
